---- MODULE Spec2Model ----
(***************************************************************************)
(* Country Currency & Exchange API (src/app.js).                           *)
(*                                                                         *)
(* src/app.js holds two deployments of the service one after the other:    *)
(*   lines   1-361  the full-replace application ("replace"): refresh      *)
(*                  fetches, then DELETE FROM countries, then INSERTs;     *)
(*   lines 362-664  the upsert application ("upsert"): refresh acquires a  *)
(*                  connection, fetches, then SELECT id + UPDATE / INSERT; *)
(*   lines 665-706  setupDatabase: the countries table and its schema.     *)
(* The variable variant says which of the two is running.                  *)
(*                                                                         *)
(* Every await of a handler is one step of the model.  MySQL runs with     *)
(* autocommit, so each statement takes effect when it executes.            *)
(*                                                                         *)
(* Optional values: Null is <<>>, a present value v is <<v>>.  Numbers of  *)
(* the GDP formula are exact rationals <<numerator, denominator>>.         *)
(***************************************************************************)
EXTENDS Integers, Sequences, FiniteSets, Bags, TLC

VARIABLES variant, table, inUse, lastRefreshTime, now, faults, req, deleted

vars == <<variant, table, inUse, lastRefreshTime, now, faults, req, deleted>>

(* ------------------------------------------------------------ bounds --- *)
\* longest upstream country list of the main specification
MaxList == 2
\* the clock runs from 1 to MaxTime
MaxTime == 2
\* database failures (a refused connection, a failed statement) per behaviour
MaxFaults == 1
\* request slots: requests that may be in flight together (SpecConc)
MaxReq == 2
\* SpecBatch: how far the upstream list may exceed the larger batch cap
BatchOver == 1

(* ------------------------------------------------- program constants --- *)
BatchCapReplace == 50
BatchCapUpsert == 10
MultMin == 1000
MultMax == 2000
connectionLimit == 10

Slots == 1..MaxReq

Null == <<>>
Some(v) == <<v>>

(* --------------------------------------------------------- rationals --- *)
RECURSIVE GCD(_, _)
GCD(a, b) == IF b = 0 THEN a ELSE GCD(b, a % b)

Norm(q) == IF q[1] = 0 THEN <<0, 1>>
           ELSE LET g == GCD(q[1], q[2]) IN <<q[1] \div g, q[2] \div g>>

RInt(n) == <<n, 1>>
RMul(a, b) == LET x == Norm(<<a[1], b[2]>>)
                  y == Norm(<<b[1], a[2]>>)
              IN  Norm(<<x[1] * y[1], x[2] * y[2]>>)
RDiv(a, b) == RMul(a, <<b[2], b[1]>>)
RAdd(a, b) == Norm(<<a[1] * b[2] + b[1] * a[2], a[2] * b[2]>>)
RLeq(a, b) == LET g == GCD(a[2], b[2])
              IN  a[1] * (b[2] \div g) <= b[1] * (a[2] \div g)
RLt(a, b) == ~RLeq(b, a)
Floor(q) == q[1] \div q[2]

RECURSIVE Pow10(_)
Pow10(k) == IF k = 0 THEN 1 ELSE 10 * Pow10(k - 1)

\* a DECIMAL(p, scale) column: the value rounded to scale decimals
Decimal(q, scale) ==
  Norm(<<(2 * q[1] * Pow10(scale) + q[2]) \div (2 * q[2]), Pow10(scale)>>)

(* ------------------------------------------------ upstream payloads --- *)
\* One record of the country provider.  name is name.common (v3) or name
\* (v2); currencies lists the currency codes in payload order.
Country(name, capital, region, population, currencies, flag) ==
  [name |-> name, capital |-> capital, region |-> region,
   population |-> population, currencies |-> currencies, flag |-> flag]

Testland == Country(Some("Testland"), Some("Test City"), Some("Europe"), 1000,
                    <<"USD">>, Some("testland.png"))
\* a country without currencies
Zembla == Country(Some("Zembla"), Null, Null, 5000, <<>>, Null)
\* a second country that uses the dollar
Utopia == Country(Some("Utopia"), Some("Amaurot"), Some("Africa"), 10, <<"USD">>, Null)
\* a record without a name and without currencies
Nameless == Country(Null, Some("Nowhere"), Some("Africa"), 0, <<>>, Null)

\* an element of the upstream array that is null instead of an object
NullCountry == [missing |-> TRUE]

Catalogue == {Testland, Zembla}

RECURSIVE SeqsUpTo(_, _)
SeqsUpTo(S, n) ==
  IF n = 0 THEN {<<>>}
  ELSE LET shorter == SeqsUpTo(S, n - 1)
       IN  shorter \cup {Append(s, x) : s \in {t \in shorter : Len(t) = n - 1}, x \in S}

\* the country lists of the main specification
SmallLists == SeqsUpTo(Catalogue, MaxList)

\* SpecQuery: lists that give rows with several and with no estimated_gdp
QueryLists == SeqsUpTo({Testland, Utopia, Zembla}, MaxList)

\* SpecRecord: lists with records that fail in the loop of the refresh
RecordLists == SeqsUpTo({Testland, Nameless, NullCountry}, MaxList)

\* SpecBatch: a list of len records, the first distinct of them with the
\* names "1", "2", ... and each later one the record filler
Numbered(i) == Country(Some(ToString(i)), Null, Null, 1, <<>>, Null)
BatchList(len, distinct, filler) ==
  [i \in 1..len |-> IF i <= distinct THEN Numbered(i) ELSE filler]
BatchLists ==
  {BatchList(len, d, filler) :
     len \in 0..(BatchCapReplace + BatchOver), d \in {0, 1, 9, 49},
     filler \in {Nameless, Numbered(1)}}
  \cup {BatchList(len, len, Nameless) : len \in 0..(BatchCapReplace + BatchOver)}

\* SpecConc: a list whose records collide on a name, across requests and
\* within one batch
ConcLists == { <<Testland, Testland>> }

\* the exchange-rate provider's rates object: currency code -> rate
RateTables == { <<>>,
                [c \in {"USD"} |-> <<2, 1>>],
                [c \in {"USD"} |-> <<3, 1>>] }

\* SpecBatch and SpecConc: a rates object with no currency of Catalogue
NoRates == { <<>> }

\* values of Math.random(), in [0, 1)
RandomDraws == { <<0, 1>>, <<1999, 2000>> }

(* ------------------------------------------------------ record mapper --- *)
\* the draw shifted by max instead of min
getRandomNumberFromMax(min, max, random) ==
  Floor(RMul(random, RInt(max - min + 1))) + max

\* Math.floor(Math.random() * (max - min + 1)) + min
getRandomNumber(min, max, random) ==
  Floor(RMul(random, RInt(max - min + 1))) + min

\* the random multiplier of each application
randomMultiplier(v, random) ==
  IF v = "replace" THEN RInt(getRandomNumber(MultMin, MultMax, random))
  ELSE RAdd(RMul(random, RInt(1000)), RInt(1000))

\* exchangeRates[currencyCode], undefined when the table has no such key
RateOf(exchangeRates, code) ==
  IF code \in DOMAIN exchangeRates THEN Some(exchangeRates[code]) ELSE Null

\* JavaScript truthiness of a rate: undefined and 0 are falsy
Truthy(rate) == rate # Null /\ rate[1][1] # 0

currencyCodeOf(country) ==
  IF Len(country.currencies) > 0 THEN Some(country.currencies[1]) ELSE Null

exchangeRateOf(country, exchangeRates) ==
  LET code == currencyCodeOf(country)
  IN  IF code # Null /\ Truthy(RateOf(exchangeRates, code[1]))
      THEN RateOf(exchangeRates, code[1]) ELSE Null

\* the formula applied outside the test for a rate, a missing rate read as 1
estimatedGDPUnguarded(v, country, exchangeRates, random) ==
  LET rate == exchangeRateOf(country, exchangeRates)
  IN  Some(RDiv(RMul(RInt(country.population), randomMultiplier(v, random)),
                IF rate # Null THEN rate[1] ELSE RInt(1)))

estimatedGDPOf(v, country, exchangeRates, random) ==
  LET rate == exchangeRateOf(country, exchangeRates)
  IN  IF rate # Null
      THEN Some(RDiv(RMul(RInt(country.population), randomMultiplier(v, random)),
                     rate[1]))
      ELSE Null

\* reading country.currencies throws a TypeError when the element is null
MapThrows(country) == "missing" \in DOMAIN country

\* the catch block inside the loop logs country.name first (country.name?.common
\* in the full-replace application): on a null element that read throws too,
\* out of the loop
CatchThrows(country) == "missing" \in DOMAIN country

\* the bind parameters of the INSERT / UPDATE of one country
MapCountry(v, country, exchangeRates, random) ==
  [name |-> IF v = "replace" /\ country.name = Null THEN Some("Unknown")
            ELSE country.name,
   capital |-> country.capital,
   region |-> country.region,
   population |-> country.population,
   currency_code |-> currencyCodeOf(country),
   exchange_rate |-> exchangeRateOf(country, exchangeRates),
   estimated_gdp |-> estimatedGDPOf(v, country, exchangeRates, random),
   flag_url |-> country.flag]

\* countries.slice(0, cap)
BatchCap(v) == IF v = "replace" THEN BatchCapReplace ELSE BatchCapUpsert
\* the whole list, no slice
BatchUncapped(v, countries) == countries

Batch(v, countries) ==
  SubSeq(countries, 1, IF Len(countries) < BatchCap(v) THEN Len(countries) ELSE BatchCap(v))

(* ------------------------------------------------ the countries table --- *)
\* table is the bag of rows of countries (the id column is left out: no
\* statement reads its value).
Rows(tbl) == BagToSet(tbl)
RowsNamed(tbl, name) == {row \in Rows(tbl) : row.name = name}
CountWhere(tbl, S) == BagCardinality([row \in S |-> tbl[row]])
CountAll(tbl) == BagCardinality(tbl)
Without(tbl, S) == [row \in Rows(tbl) \ S |-> tbl[row]]

\* the stored form of a statement's parameters, written at time t
StoredRow(p, t) ==
  [name |-> p.name[1], capital |-> p.capital, region |-> p.region,
   population |-> p.population, currency_code |-> p.currency_code,
   exchange_rate |-> IF p.exchange_rate = Null THEN Null
                     ELSE Some(Decimal(p.exchange_rate[1], 6)),
   estimated_gdp |-> IF p.estimated_gdp = Null THEN Null
                     ELSE Some(Decimal(p.estimated_gdp[1], 2)),
   flag_url |-> p.flag_url,
   last_refreshed_at |-> t]

\* mysql2 refuses a statement one of whose bind parameters is undefined
BindError(p) == p.name = Null

\* a name column without the UNIQUE constraint
NoUniqueConstraint(tbl, name) == FALSE

\* name VARCHAR(255) NOT NULL UNIQUE: an INSERT of a stored name is refused
UniqueViolation(tbl, name) == RowsNamed(tbl, name) # {}

InsertRow(tbl, p, t) == tbl (+) SetToBag({StoredRow(p, t)})

\* UPDATE countries SET ... , last_refreshed_at = NOW() WHERE name = ?
UpdateRows(tbl, p, t) ==
  LET hit == RowsNamed(tbl, p.name[1])
  IN  IF hit = {} THEN tbl
      ELSE Without(tbl, hit) (+) [row \in {StoredRow(p, t)} |-> CountWhere(tbl, hit)]

\* a DELETE whose WHERE clause matches no row
DeleteNothing(tbl, name) == tbl

\* a DELETE FROM countries that removes nothing
DeleteFromNothing(tbl) == tbl

\* DELETE FROM countries
DeleteFrom(tbl) == EmptyBag

\* DELETE FROM countries WHERE name = ?
DeleteNamed(tbl, name) == Without(tbl, RowsNamed(tbl, name))

\* SELECT MAX(last_refreshed_at) FROM countries
MaxLastRefreshedAt(tbl) ==
  IF Rows(tbl) = {} THEN Null
  ELSE Some(CHOOSE t \in {row.last_refreshed_at : row \in Rows(tbl)} :
              \A row \in Rows(tbl) : row.last_refreshed_at <= t)

(* ------------------------------------------------------ query service --- *)
\* the ORDER BY clause each application builds from the sort parameter
OrderBy(v, sort) ==
  IF sort = "gdp_desc" THEN "estimated_gdp DESC"
  ELSE IF v = "upsert" /\ sort = "gdp_asc" THEN "estimated_gdp ASC"
  ELSE IF sort = "population_desc" THEN "population DESC"
  ELSE "name ASC"

\* WHERE 1=1 [AND region = ?] [AND currency_code = ?]; "" is an absent parameter
Matches(row, region, currency) ==
  /\ (region # "" => row.region = Some(region))
  /\ (currency # "" => row.currency_code = Some(currency))

\* the collation order of the names of Catalogue
NameOrder == <<"Testland", "Unknown", "Utopia", "Zembla">>
NameRank(name) == CHOOSE i \in 1..Len(NameOrder) : NameOrder[i] = name

\* row a may come before row b under the clause (MySQL: NULL sorts first
\* ascending and last descending)
MayPrecede(a, b, clause) ==
  CASE clause = "name ASC" -> NameRank(a.name) <= NameRank(b.name)
    [] clause = "population DESC" -> a.population >= b.population
    [] clause = "estimated_gdp DESC" ->
         \/ b.estimated_gdp = Null
         \/ a.estimated_gdp # Null /\ RLeq(b.estimated_gdp[1], a.estimated_gdp[1])
    [] clause = "estimated_gdp ASC" ->
         \/ a.estimated_gdp = Null
         \/ b.estimated_gdp # Null /\ RLeq(a.estimated_gdp[1], b.estimated_gdp[1])

Ordered(s, clause) ==
  \A i \in 1..Len(s) : \A j \in 1..Len(s) : i < j => MayPrecede(s[i], s[j], clause)

\* every listing of the rows of a bag
RECURSIVE Listings(_)
Listings(B) ==
  IF BagToSet(B) = {} THEN {<<>>}
  ELSE UNION { {<<row>> \o s : s \in Listings(B (-) SetToBag({row}))} : row \in BagToSet(B) }

\* the result sets SELECT * ... WHERE ... ORDER BY may return: rows that tie
\* under the clause come in any order
SelectFiltered(tbl, region, currency, clause) ==
  LET hit == {row \in Rows(tbl) : Matches(row, region, currency)}
  IN  {s \in Listings([row \in hit |-> tbl[row]]) : Ordered(s, clause)}

(* --------------------------------------------------------- the requests --- *)
NoBody == [rows |-> <<>>, total_countries |-> Null, total_processed |-> Null,
           successful |-> Null, last_refreshed_at |-> Null]
NoResponse == [status |-> 0] @@ NoBody
Response(status, body) == [status |-> status] @@ body @@ NoBody

\* a request slot with no request in it, and the locals of a handler
IdleReq ==
  [kind |-> "none", pc |-> "idle",
   name |-> "", region |-> "", currency |-> "", sort |-> "",
   connection |-> FALSE,
   countries |-> <<>>, exchangeRates |-> <<>>,
   done |-> 0, successCount |-> 0, processedCount |-> 0, existing |-> 0,
   written |-> 0, stored |-> <<>>, hadRows |-> FALSE,
   total_countries |-> 0,
   res |-> NoResponse,
   failure |-> "none", at |-> "none", wrote |-> FALSE, before |-> <<>>]

Upd(r, fields) == req' = [req EXCEPT ![r] = fields @@ @]

\* the request parameters a client may send
QueryNames == {"Testland", "Zembla"}
QueryRegions == {"", "Europe", "Africa"}
QueryCurrencies == {"", "USD"}
QuerySorts == {"", "gdp_desc", "gdp_asc", "population_desc", "bogus"}

\* the failures of axios.get: [code, response]
UpstreamErrors ==
  { [kind |-> "timeout", code |-> "ECONNABORTED", response |-> FALSE],
    [kind |-> "refused", code |-> "ECONNREFUSED", response |-> FALSE],
    [kind |-> "status", code |-> "ERR_BAD_RESPONSE", response |-> TRUE] }

\* the failures of pool.getConnection and of connection.execute
ConnectErrors ==
  { [kind |-> "db_refused", code |-> "ECONNREFUSED", response |-> FALSE],
    [kind |-> "db_error", code |-> "ER_CON_COUNT_ERROR", response |-> FALSE] }
StatementError ==
  [kind |-> "db_error", code |-> "PROTOCOL_CONNECTION_LOST", response |-> FALSE]
\* the TypeError thrown out of the loop's catch block
RecordError == [kind |-> "record", code |-> "", response |-> FALSE]

\* whether a database operation succeeds: a failure uses up one of faults
Outcomes == IF faults > 0 THEN {TRUE, FALSE} ELSE {TRUE}
Spend(ok) == faults' = IF ok THEN faults ELSE faults - 1

\* the status the catch block of POST /countries/refresh answers with
RefreshCatchStatus(v, error) ==
  IF v = "replace"
  THEN IF error.code = "ECONNREFUSED" \/ error.response THEN 503 ELSE 500
  ELSE IF error.response THEN 503 ELSE 500

\* the full-replace refresh clearing the table before it fetches
ProgramDeleteFirst(v, kind) ==
  CASE kind = "refresh" /\ v = "replace" ->
         <<"getConnection", "deleteAll", "fetchCountries", "fetchRates", "insert",
           "commit", "finally">>
    [] kind = "refresh" /\ v = "upsert" ->
         <<"getConnection", "fetchCountries", "fetchRates", "select", "write",
           "respond", "finally">>
    [] kind = "list" -> <<"getConnection", "selectAll", "finally">>
    [] kind = "get" -> <<"getConnection", "selectOne", "finally">>
    [] kind = "delete" -> <<"getConnection", "deleteOne", "finally">>
    [] kind = "status" -> <<"getConnection", "count", "max", "finally">>

\* the order of the awaits of each handler
Program(v, kind) ==
  CASE kind = "refresh" /\ v = "replace" ->
         <<"fetchCountries", "fetchRates", "getConnection", "deleteAll", "insert",
           "commit", "finally">>
    [] kind = "refresh" /\ v = "upsert" ->
         <<"getConnection", "fetchCountries", "fetchRates", "select", "write",
           "respond", "finally">>
    [] kind = "list" -> <<"getConnection", "selectAll", "finally">>
    [] kind = "get" -> <<"getConnection", "selectOne", "finally">>
    [] kind = "delete" -> <<"getConnection", "deleteOne", "finally">>
    [] kind = "status" -> <<"getConnection", "count", "max", "finally">>

After(v, kind, label) ==
  LET prog == Program(v, kind)
      i == CHOOSE k \in 1..Len(prog) : prog[k] = label
  IN  prog[i + 1]

Following(r) == After(variant, req[r].kind, req[r].pc)

\* the for loop over the batch: its body while records are left, else what
\* follows the loop
LoopHead(v) == IF v = "replace" THEN "insert" ELSE "select"
LoopLast(v) == IF v = "replace" THEN "insert" ELSE "write"
LoopOrExit(v, done, countries) ==
  IF done < Len(Batch(v, countries)) THEN LoopHead(v)
  ELSE After(v, "refresh", LoopLast(v))

\* a throw caught by the handler's catch block: the refresh handlers map the
\* error to 503 or 500, the others answer 500
Caught(r, error) ==
  Upd(r, [pc |-> "finally",
          res |-> Response(IF req[r].kind = "refresh"
                           THEN RefreshCatchStatus(variant, error) ELSE 500, NoBody),
          failure |-> error.kind, at |-> req[r].pc])

\* the label a handler goes to: a loop head is entered only with records left
Enter(v, label, done, countries) ==
  IF label = LoopHead(v) THEN LoopOrExit(v, done, countries) ELSE label

\* GET /status: last_refreshed_at || null, or last_refreshed_at || lastRefreshTime
StatusLastRefreshed(v, max, last) ==
  IF max # Null THEN max ELSE IF v = "replace" THEN Null ELSE last

(* -------------------------------------------------------------- state --- *)
InitWith(budget) ==
  /\ variant \in {"replace", "upsert"}
  /\ table = EmptyBag
  /\ inUse = 0
  /\ lastRefreshTime = Null
  /\ now = 1
  /\ faults = budget
  /\ req = [r \in Slots |-> IdleReq]
  /\ deleted = {}

Init == InitWith(MaxFaults)

(* ----------------------------------------------------- request arrival --- *)
PostRefresh(r) ==
  /\ req[r].pc = "idle"
  /\ Upd(r, [kind |-> "refresh", pc |-> Program(variant, "refresh")[1]])
  /\ deleted' = {}
  /\ UNCHANGED <<variant, table, inUse, lastRefreshTime, now, faults>>

GetCountries(r) ==
  /\ req[r].pc = "idle"
  /\ \E region \in QueryRegions, currency \in QueryCurrencies, sort \in QuerySorts :
       Upd(r, [kind |-> "list", pc |-> Program(variant, "list")[1],
               region |-> region, currency |-> currency, sort |-> sort])
  /\ UNCHANGED <<variant, table, inUse, lastRefreshTime, now, faults, deleted>>

\* GET /countries/:name and DELETE /countries/:name are routes of the
\* full-replace application only; the router never passes an empty name
GetCountry(r) ==
  /\ req[r].pc = "idle"
  /\ variant = "replace"
  /\ \E name \in QueryNames :
       Upd(r, [kind |-> "get", pc |-> Program(variant, "get")[1], name |-> name])
  /\ UNCHANGED <<variant, table, inUse, lastRefreshTime, now, faults, deleted>>

DeleteCountry(r) ==
  /\ req[r].pc = "idle"
  /\ variant = "replace"
  /\ \E name \in QueryNames :
       Upd(r, [kind |-> "delete", pc |-> Program(variant, "delete")[1], name |-> name,
               before |-> table])
  /\ UNCHANGED <<variant, table, inUse, lastRefreshTime, now, faults, deleted>>

GetStatus(r) ==
  /\ req[r].pc = "idle"
  /\ Upd(r, [kind |-> "status", pc |-> Program(variant, "status")[1]])
  /\ UNCHANGED <<variant, table, inUse, lastRefreshTime, now, faults, deleted>>

(* ------------------------------------------------------------ fetchers --- *)
AxiosGetCountries(r, lists, errors) ==
  /\ req[r].pc = "fetchCountries"
  /\ \/ \E list \in lists : Upd(r, [countries |-> list, pc |-> Following(r)])
     \/ \E error \in errors : Caught(r, error)
  /\ UNCHANGED <<variant, table, inUse, lastRefreshTime, now, faults, deleted>>

AxiosGetRates(r, tables, errors) ==
  /\ req[r].pc = "fetchRates"
  /\ \/ \E rates \in tables :
          Upd(r, [exchangeRates |-> rates,
                  pc |-> Enter(variant, Following(r), 0, req[r].countries)])
     \/ \E error \in errors : Caught(r, error)
  /\ UNCHANGED <<variant, table, inUse, lastRefreshTime, now, faults, deleted>>

(* ----------------------------------------------------- connection pool --- *)
getConnection(r) ==
  /\ req[r].pc = "getConnection"
  /\ inUse < connectionLimit
  /\ \E ok \in Outcomes :
       /\ Spend(ok)
       /\ IF ok
          THEN /\ Upd(r, [connection |-> TRUE, pc |-> Following(r)])
               /\ inUse' = inUse + 1
          ELSE /\ \E error \in ConnectErrors : Caught(r, error)
               /\ inUse' = inUse
  /\ UNCHANGED <<variant, table, lastRefreshTime, now, deleted>>

\* the finally block: the full-replace refresh executes ROLLBACK and then
\* releases; a ROLLBACK that throws leaves the handler before the release
Finally(r) ==
  /\ req[r].pc = "finally"
  /\ IF ~req[r].connection
     THEN /\ Upd(r, [pc |-> "done"])
          /\ UNCHANGED <<inUse, faults>>
     ELSE IF req[r].kind = "refresh" /\ variant = "replace"
     THEN \E ok \in Outcomes :
            /\ Spend(ok)
            /\ IF ok
               THEN /\ Upd(r, [pc |-> "done", connection |-> FALSE])
                    /\ inUse' = inUse - 1
               ELSE /\ Upd(r, [pc |-> "done"])
                    /\ inUse' = inUse
     ELSE /\ Upd(r, [pc |-> "done", connection |-> FALSE])
          /\ inUse' = inUse - 1
          /\ UNCHANGED faults
  /\ UNCHANGED <<variant, table, lastRefreshTime, now, deleted>>

\* the response has been sent and the handler has returned
Complete(r) ==
  /\ req[r].pc = "done"
  /\ req' = [req EXCEPT ![r] = IdleReq]
  /\ UNCHANGED <<variant, table, inUse, lastRefreshTime, now, faults, deleted>>

Tick ==
  /\ now < MaxTime
  /\ now' = now + 1
  /\ UNCHANGED <<variant, table, inUse, lastRefreshTime, faults, req, deleted>>

(* ------------------------------------------------ refresh, full replace --- *)
\* await connection.execute('DELETE FROM countries')
DeleteAll(r) ==
  /\ req[r].pc = "deleteAll"
  /\ \E ok \in Outcomes :
       /\ Spend(ok)
       /\ IF ok
          THEN /\ table' = DeleteFrom(table)
               /\ Upd(r, [wrote |-> TRUE, hadRows |-> table # EmptyBag,
                          pc |-> Enter(variant, Following(r), 0, req[r].countries)])
          ELSE /\ table' = table
               /\ Caught(r, StatementError)
  /\ UNCHANGED <<variant, inUse, lastRefreshTime, now, deleted>>

\* one turn of the loop: map the country and INSERT it; a throw is caught
\* inside the loop and the loop goes on
InsertCountry(r) ==
  /\ req[r].pc = "insert"
  /\ LET country == Batch(variant, req[r].countries)[req[r].done + 1]
     IN  IF MapThrows(country)
         THEN /\ IF CatchThrows(country)
                 THEN Caught(r, RecordError)
                 ELSE Upd(r, [done |-> req[r].done + 1,
                              pc |-> LoopOrExit(variant, req[r].done + 1,
                                                req[r].countries)])
              /\ UNCHANGED <<table, faults>>
         ELSE \E random \in RandomDraws, ok \in Outcomes :
                LET p == MapCountry(variant, country, req[r].exchangeRates, random)
                    inserted == ok /\ ~BindError(p) /\ ~UniqueViolation(table, p.name[1])
                IN  /\ Spend(ok)
                    /\ table' = IF inserted THEN InsertRow(table, p, now) ELSE table
                    /\ Upd(r, [wrote |-> TRUE,
                               successCount |-> req[r].successCount
                                                + (IF inserted THEN 1 ELSE 0),
                               written |-> req[r].written
                                           + (IF table' # table THEN 1 ELSE 0),
                               stored |-> IF inserted
                                          THEN req[r].stored
                                               (+) SetToBag({StoredRow(p, now)})
                                          ELSE req[r].stored,
                               done |-> req[r].done + 1,
                               pc |-> LoopOrExit(variant, req[r].done + 1,
                                                 req[r].countries)])
  /\ UNCHANGED <<variant, inUse, lastRefreshTime, now, deleted>>

\* await connection.execute('COMMIT'), then res.status(201).json(...)
Commit(r) ==
  /\ req[r].pc = "commit"
  /\ \E ok \in Outcomes :
       /\ Spend(ok)
       /\ IF ok
          THEN Upd(r, [pc |-> Following(r),
                       res |-> Response(201, [total_countries |-> Some(req[r].successCount),
                                              last_refreshed_at |-> Some(now)])])
          ELSE Caught(r, StatementError)
  /\ UNCHANGED <<variant, table, inUse, lastRefreshTime, now, deleted>>

(* ------------------------------------------------------ refresh, upsert --- *)
\* SELECT id FROM countries WHERE name = ?
SelectExisting(r) ==
  /\ req[r].pc = "select"
  /\ LET country == Batch(variant, req[r].countries)[req[r].done + 1]
     IN  IF MapThrows(country)
         THEN /\ IF CatchThrows(country)
                 THEN Caught(r, RecordError)
                 ELSE Upd(r, [processedCount |-> req[r].processedCount + 1,
                              done |-> req[r].done + 1,
                              pc |-> LoopOrExit(variant, req[r].done + 1,
                                                req[r].countries)])
              /\ UNCHANGED faults
         ELSE \E ok \in Outcomes :
                /\ Spend(ok)
                /\ IF ok /\ country.name # Null
                   THEN Upd(r, [existing |-> CountWhere(table,
                                               RowsNamed(table, country.name[1])),
                                pc |-> Following(r)])
                   ELSE Upd(r, [processedCount |-> req[r].processedCount + 1,
                                done |-> req[r].done + 1,
                                pc |-> LoopOrExit(variant, req[r].done + 1,
                                                  req[r].countries)])
  /\ UNCHANGED <<variant, table, inUse, lastRefreshTime, now, deleted>>

\* UPDATE the country when the lookup found it, INSERT it otherwise
WriteCountry(r) ==
  /\ req[r].pc = "write"
  /\ \E random \in RandomDraws, ok \in Outcomes :
       LET country == Batch(variant, req[r].countries)[req[r].done + 1]
           p == MapCountry(variant, country, req[r].exchangeRates, random)
           update == req[r].existing > 0
           written == /\ ok
                      /\ ~BindError(p)
                      /\ (update \/ ~UniqueViolation(table, p.name[1]))
       IN  /\ Spend(ok)
           /\ table' = IF ~written THEN table
                       ELSE IF update THEN UpdateRows(table, p, now)
                       ELSE InsertRow(table, p, now)
           /\ Upd(r, [wrote |-> TRUE,
                      successCount |-> req[r].successCount + (IF written THEN 1 ELSE 0),
                      written |-> req[r].written
                                  + (IF written /\ (update => RowsNamed(table, p.name[1]) # {})
                                     THEN 1 ELSE 0),
                      processedCount |-> req[r].processedCount + 1,
                      done |-> req[r].done + 1,
                      pc |-> LoopOrExit(variant, req[r].done + 1, req[r].countries)])
  /\ UNCHANGED <<variant, inUse, lastRefreshTime, now, deleted>>

\* lastRefreshTime = new Date().toISOString(); res.json(...)
RespondRefresh(r) ==
  /\ req[r].pc = "respond"
  /\ lastRefreshTime' = Some(now)
  /\ Upd(r, [pc |-> Following(r),
             res |-> Response(200, [total_processed |-> Some(req[r].processedCount),
                                    successful |-> Some(req[r].successCount),
                                    last_refreshed_at |-> Some(now)])])
  /\ UNCHANGED <<variant, table, inUse, now, faults, deleted>>

(* ------------------------------------------------------------- queries --- *)
\* GET /countries
SelectAll(r) ==
  /\ req[r].pc = "selectAll"
  /\ \E ok \in Outcomes :
       /\ Spend(ok)
       /\ IF ok
          THEN \E rows \in SelectFiltered(table, req[r].region, req[r].currency,
                                          OrderBy(variant, req[r].sort)) :
                 Upd(r, [pc |-> Following(r), res |-> Response(200, [rows |-> rows])])
          ELSE Caught(r, StatementError)
  /\ UNCHANGED <<variant, table, inUse, lastRefreshTime, now, deleted>>

\* GET /countries/:name
SelectOne(r) ==
  /\ req[r].pc = "selectOne"
  /\ \E ok \in Outcomes :
       /\ Spend(ok)
       /\ IF ok
          THEN LET found == RowsNamed(table, req[r].name)
               IN  IF found = {}
                   THEN Upd(r, [pc |-> Following(r), res |-> Response(404, NoBody)])
                   ELSE \E row \in found :
                          Upd(r, [pc |-> Following(r),
                                  res |-> Response(200, [rows |-> <<row>>])])
          ELSE Caught(r, StatementError)
  /\ UNCHANGED <<variant, table, inUse, lastRefreshTime, now, deleted>>

\* DELETE /countries/:name
DeleteOne(r) ==
  /\ req[r].pc = "deleteOne"
  /\ \E ok \in Outcomes :
       /\ Spend(ok)
       /\ IF ok
          THEN LET affectedRows == CountWhere(table, RowsNamed(table, req[r].name))
               IN  /\ table' = DeleteNamed(table, req[r].name)
                   /\ Upd(r, [pc |-> Following(r), wrote |-> TRUE,
                              res |-> Response(IF affectedRows = 0 THEN 404 ELSE 204,
                                               NoBody)])
                   /\ deleted' = IF affectedRows = 0 THEN deleted
                                 ELSE deleted \cup {req[r].name}
          ELSE /\ Caught(r, StatementError)
               /\ UNCHANGED <<table, deleted>>
  /\ UNCHANGED <<variant, inUse, lastRefreshTime, now>>

\* GET /status: SELECT COUNT(*), then SELECT MAX(last_refreshed_at)
CountRows(r) ==
  /\ req[r].pc = "count"
  /\ \E ok \in Outcomes :
       /\ Spend(ok)
       /\ IF ok
          THEN Upd(r, [pc |-> Following(r), total_countries |-> CountAll(table)])
          ELSE Caught(r, StatementError)
  /\ UNCHANGED <<variant, table, inUse, lastRefreshTime, now, deleted>>

MaxRefreshed(r) ==
  /\ req[r].pc = "max"
  /\ \E ok \in Outcomes :
       /\ Spend(ok)
       /\ IF ok
          THEN Upd(r, [pc |-> Following(r),
                       res |-> Response(200,
                         [total_countries |-> Some(req[r].total_countries),
                          last_refreshed_at |->
                            StatusLastRefreshed(variant, MaxLastRefreshedAt(table),
                                                lastRefreshTime)])])
          ELSE Caught(r, StatementError)
  /\ UNCHANGED <<variant, table, inUse, lastRefreshTime, now, deleted>>

(* ------------------------------------------------------ specifications --- *)
\* one request at a time: refresh, get and delete by name, status
Next ==
  \/ Tick
  \/ \E r \in {1} :
       \/ PostRefresh(r) \/ GetCountry(r) \/ DeleteCountry(r) \/ GetStatus(r)
       \/ AxiosGetCountries(r, SmallLists, UpstreamErrors)
       \/ AxiosGetRates(r, RateTables, UpstreamErrors)
       \/ getConnection(r) \/ Finally(r) \/ Complete(r)
       \/ DeleteAll(r) \/ InsertCountry(r) \/ Commit(r)
       \/ SelectExisting(r) \/ WriteCountry(r) \/ RespondRefresh(r)
       \/ SelectOne(r) \/ DeleteOne(r)
       \/ CountRows(r) \/ MaxRefreshed(r)

Spec == Init /\ [][Next]_vars

\* one request at a time: refresh and GET /countries, the database sound
InitQuery == InitWith(0)

NextQuery ==
  \E r \in {1} :
    \/ PostRefresh(r) \/ GetCountries(r)
    \/ AxiosGetCountries(r, QueryLists, UpstreamErrors)
    \/ AxiosGetRates(r, RateTables, UpstreamErrors)
    \/ getConnection(r) \/ Finally(r) \/ Complete(r)
    \/ DeleteAll(r) \/ InsertCountry(r) \/ Commit(r)
    \/ SelectExisting(r) \/ WriteCountry(r) \/ RespondRefresh(r)
    \/ SelectAll(r)

SpecQuery == InitQuery /\ [][NextQuery]_vars

\* refreshes over lists with records that fail, the database failing too
NextRecord ==
  \E r \in {1} :
    \/ PostRefresh(r)
    \/ AxiosGetCountries(r, RecordLists, {})
    \/ AxiosGetRates(r, NoRates, {})
    \/ getConnection(r) \/ Finally(r) \/ Complete(r)
    \/ DeleteAll(r) \/ InsertCountry(r) \/ Commit(r)
    \/ SelectExisting(r) \/ WriteCountry(r) \/ RespondRefresh(r)

SpecRecord == Init /\ [][NextRecord]_vars

\* one refresh from the empty table, over lists longer than the batch caps
InitBatch == InitWith(0)

NextBatch ==
  \E r \in {1} :
    \/ PostRefresh(r)
    \/ AxiosGetCountries(r, BatchLists, UpstreamErrors)
    \/ AxiosGetRates(r, NoRates, UpstreamErrors)
    \/ getConnection(r) \/ Finally(r)
    \/ DeleteAll(r) \/ InsertCountry(r) \/ Commit(r)
    \/ SelectExisting(r) \/ WriteCountry(r) \/ RespondRefresh(r)

SpecBatch == InitBatch /\ [][NextBatch]_vars

\* refreshes and deletes whose statements interleave, both fetches succeeding
InitConc == InitWith(0)

NextConc ==
  \E r \in Slots :
    \/ PostRefresh(r) \/ DeleteCountry(r)
    \/ AxiosGetCountries(r, ConcLists, {}) \/ AxiosGetRates(r, NoRates, {})
    \/ getConnection(r) \/ Finally(r) \/ Complete(r)
    \/ DeleteAll(r) \/ InsertCountry(r) \/ Commit(r)
    \/ SelectExisting(r) \/ WriteCountry(r) \/ RespondRefresh(r)
    \/ DeleteOne(r)

SpecConc == InitConc /\ [][NextConc]_vars

(* -------------------------------------------------------------- claims --- *)
Done(r) == req[r].pc = "done"
UpstreamKinds == {"timeout", "refused", "status"}
UpstreamFailed(r) == req[r].kind = "refresh" /\ req[r].failure \in UpstreamKinds

\* C1: a refresh in which the country fetch or the exchange-rate fetch failed
\* has executed no DELETE, INSERT or UPDATE statement, so with no other
\* request running the table is what it was when the request started.
C1_NoWriteOnFetchFailure ==
  \A r \in Slots : UpstreamFailed(r) => ~req[r].wrote

\* a full-replace refresh ended on a fetch timeout over a table that has rows
C1_Witness ==
  \E r \in Slots :
    /\ Done(r) /\ UpstreamFailed(r) /\ req[r].failure = "timeout"
    /\ variant = "replace" /\ Rows(table) # {}

\* C2: a refresh answers 503 whenever an upstream fetch fails, whether by a
\* timeout, a refused connection or a non-success status.
C2_FetchFailureAnswers503 ==
  \A r \in Slots : (Done(r) /\ UpstreamFailed(r)) => req[r].res.status = 503

\* C3: a finished request holds no connection, and once every request has
\* finished no connection of the pool is checked out.
C3_ConnectionsReleased ==
  /\ \A r \in Slots : Done(r) => ~req[r].connection
  /\ (\A r \in Slots : req[r].pc = "idle") => inUse = 0

\* C4: every row whose currency_code is null or whose exchange_rate is null
\* has estimated_gdp null.
C4_NoGdpWithoutRate ==
  \A row \in Rows(table) :
    (row.currency_code = Null \/ row.exchange_rate = Null) => row.estimated_gdp = Null

\* a row whose currency code had no entry in the rates of its refresh
C4_Witness ==
  \E row \in Rows(table) :
    row.currency_code # Null /\ row.exchange_rate = Null /\ row.estimated_gdp = Null

\* C5: a refresh that answers with success reports successful <=
\* total_processed <= 10 (upsert); the full-replace application reports one
\* count, total_countries, which is at most the records attempted, at most 50.
C5_CountsWithinCap ==
  \A r \in Slots :
    (Done(r) /\ req[r].kind = "refresh" /\ req[r].res.status \in {200, 201}) =>
      IF variant = "upsert"
      THEN /\ req[r].res.successful[1] <= req[r].res.total_processed[1]
           /\ req[r].res.total_processed[1] <= 10
      ELSE /\ req[r].res.total_countries[1] <= req[r].done
           /\ req[r].done <= 50

\* an upsert refresh over a list longer than the cap, with a failed record
C5_Witness ==
  \E r \in Slots :
    /\ Done(r) /\ variant = "upsert" /\ req[r].res.status = 200
    /\ Len(req[r].countries) > 10
    /\ req[r].res.total_processed = Some(10)
    /\ req[r].res.successful[1] < 10 /\ req[r].res.successful[1] > 0

\* C6: no two rows of the table share a name.
C6_NameUnique ==
  \A row \in Rows(table) : CountWhere(table, RowsNamed(table, row.name)) = 1

\* two upsert refreshes interleave and the INSERT of one is refused: its
\* lookup found no row, the other request inserted the name in between
C6_Witness ==
  \E r \in Slots, q \in Slots :
    /\ r # q /\ variant = "upsert"
    /\ req[r].kind = "refresh" /\ req[q].kind = "refresh" /\ req[q].wrote
    /\ req[r].done > 0 /\ req[r].wrote
    /\ req[r].successCount = 0 /\ req[r].existing = 0
    /\ Batch(variant, req[r].countries)[req[r].done].name # Null

\* C7: after DELETE /countries/:name answered 204 and with no refresh since,
\* GET /countries/:name never answers 200 and answers 404 whenever its query
\* runs; a DELETE for a name with no row answers 404 and changes nothing.
C7_DeletedStaysGone ==
  \A r \in Slots :
    /\ (Done(r) /\ req[r].kind = "get" /\ req[r].name \in deleted) =>
         /\ req[r].res.status # 200
         /\ req[r].failure = "none" => req[r].res.status = 404
    /\ (Done(r) /\ req[r].kind = "delete" /\ req[r].failure = "none"
          /\ RowsNamed(req[r].before, req[r].name) = {}) =>
         /\ req[r].res.status = 404
         /\ table = req[r].before

\* a GET answered 404 for a name deleted earlier
C7_Witness ==
  \E r \in Slots :
    /\ Done(r) /\ req[r].kind = "get" /\ req[r].name \in deleted
    /\ req[r].res.status = 404

\* population * multiplier / exchange_rate of a row
GdpAt(row, multiplier) ==
  RDiv(RInt(row.population * multiplier), row.exchange_rate[1])

ClaimedOrder(sort) ==
  CASE sort = "gdp_desc" -> "estimated_gdp DESC"
    [] sort = "gdp_asc" -> "estimated_gdp ASC"
    [] sort = "population_desc" -> "population DESC"
    [] OTHER -> "name ASC"

\* rows a, then b, respect the clause wherever rows without a value stand
ClaimedPrecede(a, b, clause) ==
  (clause \in {"estimated_gdp DESC", "estimated_gdp ASC"}
     /\ (a.estimated_gdp = Null \/ b.estimated_gdp = Null))
  \/ MayPrecede(a, b, clause)

RECURSIVE BagOfSeq(_)
BagOfSeq(s) == IF s = <<>> THEN EmptyBag ELSE SetToBag({Head(s)}) (+) BagOfSeq(Tail(s))

\* C9: GET /countries returns exactly the rows that match the region and
\* currency filters, in the order its sort parameter selects among the four
\* (rows with an estimated_gdp are compared; the place of the rows without
\* one is left open).
C9_ListFilteredAndOrdered ==
  \A r \in Slots :
    (Done(r) /\ req[r].kind = "list" /\ req[r].res.status = 200) =>
      /\ \A i \in 1..Len(req[r].res.rows) : \A j \in 1..Len(req[r].res.rows) :
           i < j => ClaimedPrecede(req[r].res.rows[i], req[r].res.rows[j],
                                   ClaimedOrder(req[r].sort))
      /\ BagOfSeq(req[r].res.rows) =
           [row \in {x \in Rows(table) : Matches(x, req[r].region, req[r].currency)}
              |-> table[row]]

\* C10: GET /status returns the number of rows and the greatest
\* last_refreshed_at of the rows, which is null when the table is empty.
C10_StatusFromTable ==
  \A r \in Slots :
    (Done(r) /\ req[r].kind = "status" /\ req[r].res.status = 200) =>
      /\ req[r].res.total_countries = Some(CountAll(table))
      /\ req[r].res.last_refreshed_at = MaxLastRefreshedAt(table)

\* both fetches of the refresh come before the await label in the handler
FetchedBefore(v, label) ==
  LET prog == Program(v, "refresh")
  IN  \E i \in 1..Len(prog) : \E j \in 1..Len(prog) :
        i < j /\ prog[i] = "fetchRates" /\ prog[j] = label

\* C11: a refresh whose two fetches succeeded and whose getConnection (a
\* refused database connection included) or DELETE FROM countries then
\* failed answers 500, not 503.
C11_PersistenceFailureAnswers500 ==
  \A r \in Slots :
    (/\ Done(r) /\ req[r].kind = "refresh"
     /\ req[r].at \in {"getConnection", "deleteAll"}
     /\ FetchedBefore(variant, req[r].at)) =>
      req[r].res.status = 500

\* the success count a refresh reports: successful, or total_countries
ReportedSuccess(res) ==
  IF res.successful # Null THEN res.successful ELSE res.total_countries

\* C12: a refresh in which a record of the batch failed, in its mapping or
\* in its statement, and nothing outside the loop failed, has attempted every
\* record of the batch and answers with success, its success count being
\* the number of records it wrote.
C12_RecordFailureNotFatal ==
  \A r \in Slots :
    (/\ Done(r) /\ req[r].kind = "refresh"
     /\ \/ req[r].failure = "record"
        \/ req[r].failure = "none" /\ req[r].successCount < req[r].done) =>
      /\ req[r].res.status \in {200, 201}
      /\ req[r].done = Len(Batch(variant, req[r].countries))
      /\ ReportedSuccess(req[r].res) = Some(req[r].written)

\* C13: after a full-replace refresh that answered 201, no other request
\* running, the table is the bag of the rows the refresh inserted, none of
\* the rows from before it, and has total_countries rows.
C13_TableIsTheBatch ==
  \A r \in Slots :
    (/\ Done(r) /\ req[r].kind = "refresh" /\ variant = "replace"
     /\ req[r].res.status = 201) =>
      /\ table = req[r].stored
      /\ Some(CountAll(table)) = req[r].res.total_countries

\* a 201 refresh over a table that had rows, one insert refused, one stored
C13_Witness ==
  \E r \in Slots :
    /\ Done(r) /\ req[r].kind = "refresh" /\ variant = "replace"
    /\ req[r].res.status = 201
    /\ req[r].hadRows
    /\ req[r].successCount > 0 /\ req[r].successCount < req[r].done

====
